---------------------------- MODULE Spec2Model ----------------------------
(***************************************************************************)
(* A model of go-dns-resolver: the DNS wire-format codec (package dns:      *)
(* name codec, header codec, question and resource-record parsers), the     *)
(* record data formatter RDataString and the Resolve query/response cycle.  *)
(*                                                                          *)
(* Byte strings and Go strings are sequences of numbers 0..255.  A Go       *)
(* offset i into a slice is the TLA+ index i+1.  Every function that can    *)
(* fail returns a record whose field status is "ok" or "err"; a call that   *)
(* never returns because the recursion does not end (the Go runtime aborts  *)
(* the process with a stack overflow) has status "overflow".                *)
(***************************************************************************)
EXTENDS Integers, Sequences, FiniteSets

VARIABLES
    pc,           \* position of the call under way
    domain,       \* domainName / domain: the name given to Resolve or EncodeDomainName
    recordType,   \* the record type given to Resolve
    encoded,      \* what EncodeDomainName returned
    fullMessage,  \* the message buffer given to a decoder or parser
    offset,       \* the start offset given to a decoder or parser
    decoded,      \* what DecodeDomainName returned
    header,       \* the Header given to Pack
    packed,       \* what Header.Pack returned
    data,         \* the bytes given to UnpackHeader
    unpacked,     \* what UnpackHeader returned
    question,     \* what parseQuestion returned
    record,       \* what ParseResourceRecord returned
    queryID,      \* the id buildQuery generated
    query,        \* the query bytes buildQuery returned
    conn,         \* the UDP connection of sendQuery: "none", "open" or "closed"
    netops,       \* the network operations sendQuery performed, in order
    response,     \* the bytes conn.Read delivered
    parsed,       \* what parseResponse returned
    outcome,      \* what Resolve returned
    rawBytes,     \* the message buffer given to RDataString
    formatted     \* what RDataString returned

vars == << pc, domain, recordType, encoded, fullMessage, offset, decoded, header, packed,
           data, unpacked, question, record, queryID, query, conn, netops,
           response, parsed, outcome, rawBytes, formatted >>

(***************************************************************************)
(* Bounds of the model.                                                     *)
(***************************************************************************)
\* longest enumerated message buffer given to DecodeDomainName
MaxMsgLen == 5
\* longest enumerated domain name over the small alphabet
MaxNameLen == 4

(***************************************************************************)
(* Constants of the program.                                                *)
(***************************************************************************)
\* '.', the separator of strings.Split and strings.Join
Dot == 46
\* the longest label EncodeDomainName accepts
MaxLabelLen == 63
\* the size of the header
HeaderLen == 12
\* the mask of the pointer offset, 0x3FFF, as a modulus
PointerMod == 16384

\* the value no call has produced yet
None == [status |-> "none"]

(***************************************************************************)
(* Helpers on byte strings.                                                 *)
(***************************************************************************)
\* n copies of byte b
Rep(b, n) == [i \in 1..n |-> b]

\* message[lo:hi], a Go slice expression (0-based, hi exclusive)
Slice(s, lo, hi) == SubSeq(s, lo + 1, hi)

\* binary.BigEndian.Uint16 of two bytes
Uint16(hi, lo) == hi * 256 + lo

\* the two bytes binary.Write emits for a uint16, big-endian
\* a faulty variant: little-endian
PutUint16_LE(x) == << x % 256, (x \div 256) % 256 >>

PutUint16(x) == << (x \div 256) % 256, x % 256 >>

\* strings.Split(s, "."): the segments between the dots, one more than there
\* are dots; "" yields one empty segment.  Segment k lies between dot k-1 and
\* dot k, the start and the end of s counting as dots 0 and n.
Split(s) ==
    LET dots     == { i \in 1 .. Len(s) : s[i] = Dot }
        n        == Cardinality(dots) + 1
        DotAt(k) == IF k = 0 THEN 0
                    ELSE IF k = n THEN Len(s) + 1
                    ELSE CHOOSE i \in dots :
                             Cardinality({ j \in dots : j < i }) = k - 1
    IN  [ k \in 1 .. n |-> SubSeq(s, DotAt(k - 1) + 1, DotAt(k) - 1) ]

\* strings.Join(labels, "."): nil joins to "", elements separated by one dot
RECURSIVE Join(_)
Join(labels) ==
    IF Len(labels) = 0 THEN << >>
    ELSE IF Len(labels) = 1 THEN labels[1]
    ELSE labels[1] \o << Dot >> \o Join(Tail(labels))

(***************************************************************************)
(* Name codec: EncodeDomainName.                                            *)
(***************************************************************************)
\* a faulty variant: rejects a segment of 63 bytes
SegmentTooLong_Off(segment) == Len(segment) >= MaxLabelLen

\* len(segment) > 63, the test that rejects a segment
SegmentTooLong(segment) == Len(segment) > MaxLabelLen

\* the loop over the segments: each is checked, then written as length byte + bytes
RECURSIVE EncodeSegments(_, _, _)
EncodeSegments(segments, i, buf) ==
    IF i > Len(segments) THEN [status |-> "ok", bytes |-> buf]
    ELSE IF SegmentTooLong(segments[i])
         THEN [status |-> "err", err |-> "segment longer than 63", bytes |-> << >>]
         ELSE EncodeSegments(segments, i + 1,
                             buf \o << Len(segments[i]) % 256 >> \o segments[i])

\* a faulty variant: no terminating octet
WriteTerminator_None(buf) == buf

\* buf.WriteByte(0): the terminating root label
WriteTerminator(buf) == Append(buf, 0)

EncodeDomainName(d) ==
    LET r == EncodeSegments(Split(d), 1, << >>)
    IN  IF r.status = "ok"
        THEN [status |-> "ok", bytes |-> WriteTerminator(r.bytes)]
        ELSE r

(***************************************************************************)
(* Name codec: DecodeDomainName.                                            *)
(***************************************************************************)
\* (length & 0xC0) == 0xC0
IsPointer(length) == (length \div 64) % 4 = 3

\* a faulty variant: lets the offset len(fullMessage) through
PastEnd_Off(message, off) == off > Len(message)

\* offset >= len(fullMessage): the bounds test before each length octet
PastEnd(message, off) == off >= Len(message)

\* a faulty variant: lets a label end one byte past the buffer
LabelOverrun_Off(message, off, length) == off + length > Len(message) + 1

\* offset+length > len(fullMessage): the bounds test before each label
LabelOverrun(message, off, length) == off + length > Len(message)

DecErr(e, reads, panic) ==
    [status |-> "err", err |-> e, name |-> << >>, n |-> 0,
     reads |-> reads, panic |-> panic]

DecOverflow(reads) ==
    [status |-> "overflow", err |-> "stack overflow", name |-> << >>, n |-> 0,
     reads |-> reads, panic |-> FALSE]

\* a faulty variant: counts one byte of the pointer
BytesReadAtPointer_One(off1, startOffset) == off1 - startOffset

\* bytesRead = offset - startOffset + 1 at a pointer, offset being the offset
\* of the pointer's second byte
BytesReadAtPointer(off1, startOffset) == off1 - startOffset + 1

\* The for loop of DecodeDomainName, one iteration per call, and its recursive
\* call at a pointer.  off is the loop's offset, labels the labels read so far.
\* active holds the start offsets of the calls under way: the call is a
\* function of (fullMessage, offset) alone, so a pointer to an offset in active
\* starts the same chain of calls again and the recursion never returns.
\* reads collects every index of fullMessage the call reads.
RECURSIVE DecodeLoop(_, _, _, _, _, _, _)
DecodeLoop(message, startOffset, off, labels, jumped, active, reads) ==
    IF PastEnd(message, off)
    THEN DecErr("offset out of bounds", reads, FALSE)
    ELSE
    IF off + 1 > Len(message)
    THEN DecErr("index out of range", reads \cup {off}, TRUE)
    ELSE
    LET length == message[off + 1]
        off1   == off + 1
        reads1 == reads \cup {off}
    IN  IF length = 0
        THEN [status |-> "ok", err |-> "", name |-> Join(labels),
              n |-> IF jumped THEN 0 ELSE off1 - startOffset,
              reads |-> reads1, panic |-> FALSE]
        ELSE IF IsPointer(length)
        THEN IF PastEnd(message, off1)
             THEN DecErr("malformed pointer", reads1, FALSE)
             ELSE IF off1 + 1 > Len(message)
             THEN DecErr("slice bounds out of range", reads1 \cup {off1}, TRUE)
             ELSE
             LET pointer == Uint16(length, message[off1 + 1]) % PointerMod
                 reads2  == reads1 \cup {off1}
             IN  IF pointer \in active
                 THEN DecOverflow(reads2)
                 ELSE
                 LET sub == DecodeLoop(message, pointer, pointer, << >>, FALSE,
                                       active \cup {pointer}, reads2)
                 IN  IF sub.status = "overflow" THEN sub
                     ELSE IF sub.panic THEN sub
                     ELSE IF sub.status = "err"
                     THEN DecErr("failed to decode pointed name", sub.reads, FALSE)
                     ELSE [status |-> "ok", err |-> "",
                           name |-> Join(Append(labels, sub.name)),
                           n |-> IF jumped THEN 0
                                 ELSE BytesReadAtPointer(off1, startOffset),
                           reads |-> sub.reads, panic |-> FALSE]
        ELSE IF LabelOverrun(message, off1, length)
        THEN DecErr("label extends beyond message boundary", reads1, FALSE)
        ELSE IF off1 + length > Len(message)
        THEN DecErr("slice bounds out of range",
                    reads1 \cup (off1 .. off1 + length - 1), TRUE)
        ELSE DecodeLoop(message, startOffset, off1 + length,
                        Append(labels, Slice(message, off1, off1 + length)),
                        jumped, active,
                        reads1 \cup (off1 .. off1 + length - 1))

DecodeDomainName(message, off) ==
    DecodeLoop(message, off, off, << >>, FALSE, {off}, {})

(***************************************************************************)
(* Message codec: Header.Pack and UnpackHeader.                             *)
(***************************************************************************)
\* binary.Write(buf, binary.BigEndian, h): the six uint16 fields in order
HeaderBytes(h) ==
    PutUint16(h.ID) \o PutUint16(h.Flags) \o PutUint16(h.QDCOUNT)
        \o PutUint16(h.ANCOUNT) \o PutUint16(h.NSCOUNT) \o PutUint16(h.ARCOUNT)

\* binary.Write does not fail on a struct of fixed-size fields
Pack(h) == [status |-> "ok", bytes |-> HeaderBytes(h)]

\* binary.Read(reader, binary.BigEndian, &header) on the 12 bytes d
ReadHeader(d) ==
    [ ID      |-> Uint16(d[1], d[2]),
      Flags   |-> Uint16(d[3], d[4]),
      QDCOUNT |-> Uint16(d[5], d[6]),
      ANCOUNT |-> Uint16(d[7], d[8]),
      NSCOUNT |-> Uint16(d[9], d[10]),
      ARCOUNT |-> Uint16(d[11], d[12]) ]

\* the zero Header returned beside an error
ZeroHeader ==
    [ ID |-> 0, Flags |-> 0, QDCOUNT |-> 0, ANCOUNT |-> 0, NSCOUNT |-> 0, ARCOUNT |-> 0 ]

UnpackHeader(d) ==
    IF Len(d) < HeaderLen
    THEN [status |-> "err", err |-> "header data too short to unpack",
          header |-> ZeroHeader]
    ELSE [status |-> "ok", err |-> "", header |-> ReadHeader(Slice(d, 0, HeaderLen))]

(***************************************************************************)
(* Question and resource-record parsers.                                    *)
(***************************************************************************)
\* the indexes lo .. hi-1 that the slice expression message[lo:hi] reads
Span(lo, hi) == { i \in lo .. hi : i < hi }

\* the zero Question returned beside an error
ZeroQuestion == [ Name |-> << >>, Type |-> 0, Class |-> 0 ]

ParseErr(e, reads, panic) ==
    [status |-> "err", err |-> e, n |-> 0, reads |-> reads, panic |-> panic]

\* offset+nameLen+4 > len(message): the bounds test before type and class
QuestionTooShort(message, off, nameLen) == off + nameLen + 4 > Len(message)

parseQuestion(message, off) ==
    LET d == DecodeDomainName(message, off)
    IN  IF d.status = "overflow"
        THEN [status |-> "overflow", err |-> d.err, n |-> 0,
              reads |-> d.reads, panic |-> FALSE]
        ELSE IF d.status = "err" THEN ParseErr(d.err, d.reads, d.panic)
        ELSE IF QuestionTooShort(message, off, d.n)
        THEN ParseErr("message too short for question type/class", d.reads, FALSE)
        ELSE IF off + d.n + 4 > Len(message)
        THEN ParseErr("slice bounds out of range",
                      d.reads \cup Span(off + d.n, off + d.n + 4), TRUE)
        ELSE [status |-> "ok", err |-> "",
              q |-> [ Name  |-> d.name,
                      Type  |-> Uint16(message[off + d.n + 1], message[off + d.n + 2]),
                      Class |-> Uint16(message[off + d.n + 3], message[off + d.n + 4]) ],
              n |-> d.n + 4,
              reads |-> d.reads \cup Span(off + d.n, off + d.n + 4),
              panic |-> FALSE]

\* offset+10 > len(message): the bounds test before type, class, ttl, rdlength
RRHeaderTooShort(message, off) == off + 10 > Len(message)

\* a faulty variant: lets the data end one byte past the buffer
RDataOverrun_Off(message, off, rdlength) == off + rdlength > Len(message) + 1

\* offset+int(rr.RDLength) > len(message): the bounds test before the data
RDataOverrun(message, off, rdlength) == off + rdlength > Len(message)

\* binary.BigEndian.Uint32 of the four bytes at Go offset off, kept as its
\* two 16-bit halves: the value is hi * 65536 + lo
Uint32At(message, off) ==
    [ hi |-> Uint16(message[off + 1], message[off + 2]),
      lo |-> Uint16(message[off + 3], message[off + 4]) ]

\* ParseResourceRecord returns the record and, as its second value n, the
\* offset of the byte following the record.  start is the offset the call was
\* given and dataStart the offset its data was copied from.
ParseResourceRecord(message, start) ==
    LET d == DecodeDomainName(message, start)
    IN  IF d.status = "overflow"
        THEN [status |-> "overflow", err |-> d.err, n |-> 0,
              reads |-> d.reads, panic |-> FALSE]
        ELSE IF d.status = "err"
        THEN ParseErr("failed to parse RR name", d.reads, d.panic)
        ELSE
        LET off == start + d.n
        IN  IF RRHeaderTooShort(message, off)
            THEN ParseErr("message too short for RR header fields", d.reads, FALSE)
            ELSE IF off + 10 > Len(message)
            THEN ParseErr("slice bounds out of range",
                          d.reads \cup Span(off, off + 10), TRUE)
            ELSE
            LET rdlength == Uint16(message[off + 9], message[off + 10])
                reads1   == d.reads \cup Span(off, off + 10)
                off1     == off + 10
            IN  IF RDataOverrun(message, off1, rdlength)
                THEN ParseErr("RR data length exceeds message boundary", reads1, FALSE)
                ELSE IF off1 + rdlength > Len(message)
                THEN ParseErr("slice bounds out of range",
                              reads1 \cup Span(off1, off1 + rdlength), TRUE)
                ELSE [status |-> "ok", err |-> "",
                      rr |-> [ Name     |-> d.name,
                               Type     |-> Uint16(message[off + 1], message[off + 2]),
                               Class    |-> Uint16(message[off + 3], message[off + 4]),
                               TTL      |-> Uint32At(message, off + 4),
                               RDLength |-> rdlength,
                               RData    |-> Slice(message, off1, off1 + rdlength) ],
                      n |-> off1 + rdlength,
                      dataStart |-> off1,
                      reads |-> reads1 \cup Span(off1, off1 + rdlength),
                      panic |-> FALSE]

(***************************************************************************)
(* Question.Pack and buildQuery.                                            *)
(***************************************************************************)
\* Question.Pack: the encoded name, then type and class, big-endian
QuestionPack(q) ==
    LET e == EncodeDomainName(q.Name)
    IN  IF e.status = "err" THEN e
        ELSE [status |-> "ok", bytes |-> e.bytes \o PutUint16(q.Type) \o PutUint16(q.Class)]

\* buildQuery with the id that rand.Read produced, or with rand.Read failing
buildQuery(domainName, type, id, randOK) ==
    IF ~randOK
    THEN [status |-> "err", err |-> "failed to generate random ID", bytes |-> << >>, id |-> 0]
    ELSE
    LET h == [ ID |-> id, Flags |-> 256, QDCOUNT |-> 1,
               ANCOUNT |-> 0, NSCOUNT |-> 0, ARCOUNT |-> 0 ]
        q == [ Name |-> domainName, Type |-> type, Class |-> 1 ]
        hb == Pack(h)
        qb == QuestionPack(q)
    IN  IF qb.status = "err"
        THEN [status |-> "err", err |-> qb.err, bytes |-> << >>, id |-> 0]
        ELSE [status |-> "ok", err |-> "", bytes |-> hb.bytes \o qb.bytes, id |-> id]

(***************************************************************************)
(* parseResponse.                                                           *)
(***************************************************************************)
\* header.Flags & 0x000F
ResponseCode(flags) == flags % 16

\* a faulty variant: response code 2 is not tested
RcodeError_Only3(responseCode) ==
    IF responseCode = 3 THEN "ErrNameNotFound" ELSE "none"

\* the error parseResponse returns for a response code, "none" when it goes on
RcodeError(responseCode) ==
    IF responseCode = 2 THEN "ErrServerFailed"
    ELSE IF responseCode = 3 THEN "ErrNameNotFound"
    ELSE "none"

\* offset += n after a question; n is the byte count parseQuestion returned
AdvanceAfterQuestion(off, n) == off + n

\* offset += n after an answer; n is the second value ParseResourceRecord returned
AdvanceAfterAnswer(off, n) == off + n

\* the state of parseResponse as its loops start: offset 12, an empty message,
\* and the log of where each parser was called and what it returned
ParseStart(h) ==
    [ status |-> "ok", err |-> "", is |-> "none", offset |-> HeaderLen,
      msg |-> [ Header |-> h, Questions |-> << >>, Answers |-> << >> ],
      qOffsets |-> << >>, qReturned |-> << >>,
      rrOffsets |-> << >>, rrReturned |-> << >>,
      reads |-> Span(0, HeaderLen), panic |-> FALSE ]

\* the first loop: for i := 0; i < int(header.QDCOUNT); i++
RECURSIVE ParseQuestions(_, _, _)
ParseQuestions(resp, i, st) ==
    IF ~(i < st.msg.Header.QDCOUNT) THEN st
    ELSE
    LET r   == parseQuestion(resp, st.offset)
        st1 == [ st EXCEPT !.qOffsets = Append(@, st.offset),
                           !.qReturned = Append(@, r.n),
                           !.reads = @ \cup r.reads,
                           !.panic = r.panic ]
    IN  IF r.status # "ok"
        THEN [ st1 EXCEPT !.status = r.status, !.err = "failed to parse question" ]
        ELSE ParseQuestions(resp, i + 1,
                 [ st1 EXCEPT !.msg.Questions = Append(@, r.q),
                              !.offset = AdvanceAfterQuestion(st.offset, r.n) ])

\* the second loop: for i := 0; i < int(header.ANCOUNT); i++
RECURSIVE ParseAnswers(_, _, _)
ParseAnswers(resp, i, st) ==
    IF ~(i < st.msg.Header.ANCOUNT) THEN st
    ELSE
    LET r   == ParseResourceRecord(resp, st.offset)
        st1 == [ st EXCEPT !.rrOffsets = Append(@, st.offset),
                           !.rrReturned = Append(@, r.n),
                           !.reads = @ \cup r.reads,
                           !.panic = r.panic ]
    IN  IF r.status # "ok"
        THEN [ st1 EXCEPT !.status = r.status, !.err = "failed to parse answer" ]
        ELSE ParseAnswers(resp, i + 1,
                 [ st1 EXCEPT !.msg.Answers = Append(@, r.rr),
                              !.offset = AdvanceAfterAnswer(st.offset, r.n) ])

parseResponse(resp) ==
    LET h == UnpackHeader(resp)
    IN  IF h.status = "err"
        THEN [ ParseStart(h.header) EXCEPT !.status = "err", !.err = h.err,
                                           !.reads = {} ]
        ELSE IF RcodeError(ResponseCode(h.header.Flags)) # "none"
        THEN [ ParseStart(h.header) EXCEPT
                 !.status = "err",
                 !.err = RcodeError(ResponseCode(h.header.Flags)),
                 !.is = RcodeError(ResponseCode(h.header.Flags)) ]
        ELSE
        LET qs == ParseQuestions(resp, 0, ParseStart(h.header))
        IN  IF qs.status # "ok" THEN qs
            ELSE ParseAnswers(resp, 0, qs)

(***************************************************************************)
(* Resolve.                                                                 *)
(***************************************************************************)
\* a faulty variant: the ids are not compared
IDMatches_Always(id, qid) == TRUE

\* msg.Header.ID != queryID, negated: the response is the query's
IDMatches(id, qid) == id = qid

\* the (*DNSMessage, error) pair Resolve returns; msg is None for nil
Failure(e, is) == [status |-> "err", err |-> e, is |-> is, msg |-> None]

\* the end of Resolve: parseResponse on the bytes read, then the id check
ResolveResult(p, qid) ==
    IF p.status = "overflow"
    THEN [status |-> "overflow", err |-> "stack overflow", is |-> "none", msg |-> None]
    ELSE IF p.panic
    THEN [status |-> "panic", err |-> p.err, is |-> "none", msg |-> None]
    ELSE IF p.status = "err" THEN Failure("failed to parse response", p.is)
    ELSE IF ~IDMatches(p.msg.Header.ID, qid)
    THEN Failure("response ID does not match query ID", "none")
    ELSE [status |-> "ok", err |-> "", is |-> "none", msg |-> p.msg]

(***************************************************************************)
(* Groups of variables, and the value each group has while a specification  *)
(* does not use it.                                                         *)
(***************************************************************************)
nameVars    == << domain, encoded >>
decodeVars  == << fullMessage, offset, decoded >>
headerVars  == << header, packed, data, unpacked >>
parseVars   == << question, record >>
resolveVars == << recordType, queryID, query, conn, netops, response, parsed, outcome >>
formatVars  == << rawBytes, formatted >>

NameIdle    == domain = << >> /\ encoded = None
DecodeIdle  == fullMessage = << >> /\ offset = 0 /\ decoded = None
HeaderIdle  == header = None /\ packed = None /\ data = << >> /\ unpacked = None
ParseIdle   == question = None /\ record = None
ResolveIdle == /\ recordType = 0 /\ queryID = 0 /\ query = << >> /\ conn = "none"
               /\ netops = << >> /\ response = << >> /\ parsed = None /\ outcome = None
FormatIdle  == rawBytes = << >> /\ formatted = None

\* every prefix of the byte string w, from the empty one to w itself
Prefixes(w) == { SubSeq(w, 1, k) : k \in 0 .. Len(w) }

\* every sequence over S of length at most n
SeqsUpTo(S, n) == UNION { [1..k -> S] : k \in 0..n }

(***************************************************************************)
(* SpecEncode: EncodeDomainName applied to a name, then DecodeDomainName    *)
(* applied to the bytes it produced (what Question.Pack writes and          *)
(* parseQuestion reads back).                                               *)
(***************************************************************************)
\* "example.com"
ExampleCom == << 101, 120, 97, 109, 112, 108, 101, 46, 99, 111, 109 >>

\* [7]example[3]com[0]
ExampleComWire == << 7, 101, 120, 97, 109, 112, 108, 101, 3, 99, 111, 109, 0 >>

\* the letters a, b and the dot
NameAlphabet == { 97, 98, Dot }

\* names with segments of 62, 63 and 64 bytes, alone and beside other segments
LongDomains ==
    { ExampleCom,
      Rep(97, MaxLabelLen - 1), Rep(97, MaxLabelLen), Rep(97, MaxLabelLen + 1),
      Rep(97, MaxLabelLen) \o << Dot, 98 >>,
      << 98, Dot >> \o Rep(97, MaxLabelLen + 1),
      Rep(97, MaxLabelLen + 1) \o << Dot >> \o Rep(98, MaxLabelLen) }

Domains == SeqsUpTo(NameAlphabet, MaxNameLen) \cup LongDomains

InitEncode ==
    /\ pc = "start"
    /\ domain \in Domains
    /\ encoded = None
    /\ DecodeIdle /\ HeaderIdle /\ ParseIdle /\ ResolveIdle /\ FormatIdle

Encode ==
    /\ pc = "start"
    /\ encoded' = EncodeDomainName(domain)
    /\ pc' = "encoded"
    /\ UNCHANGED << domain, decodeVars, headerVars, parseVars, resolveVars, formatVars >>

DecodeEncoded ==
    /\ pc = "encoded"
    /\ encoded.status = "ok"
    /\ fullMessage' = encoded.bytes
    /\ offset' = 0
    /\ decoded' = DecodeDomainName(encoded.bytes, 0)
    /\ pc' = "decoded"
    /\ UNCHANGED << nameVars, headerVars, parseVars, resolveVars, formatVars >>

NextEncode == Encode \/ DecodeEncoded

SpecEncode == InitEncode /\ [][NextEncode]_vars

(***************************************************************************)
(* SpecDecode: DecodeDomainName applied to a message buffer at an offset.   *)
(***************************************************************************)
\* root, label lengths 1 and 2, the letter a, and 0xC0, the first octet of a pointer
DecodeAlphabet == { 0, 1, 2, 97, 192 }

\* one label of n bytes whose length octet is n, then the root
OneLabel(n) == << n >> \o Rep(97, n) \o << 0 >>

\* the name "a", a pointer to it, and "a" followed by a pointer to that pointer
PointerChain == << 1, 97, 0, 192, 0, 1, 97, 192, 3 >>

\* labels of 63 bytes and of 64, 128 and 191 bytes (length octets whose top
\* two bits are 01 and 10), a length octet 64 with no such label behind it,
\* and a chain of two pointers
LongBuffers ==
    { OneLabel(MaxLabelLen), OneLabel(MaxLabelLen + 1), OneLabel(2 * (MaxLabelLen + 1)),
      OneLabel(3 * (MaxLabelLen + 1) - 1), << MaxLabelLen + 1, 97 >>, PointerChain }

Buffers == SeqsUpTo(DecodeAlphabet, MaxMsgLen) \cup LongBuffers

InitDecode ==
    /\ pc = "start"
    /\ fullMessage \in Buffers
    /\ offset \in 0 .. Len(fullMessage) + 1
    /\ decoded = None
    /\ NameIdle /\ HeaderIdle /\ ParseIdle /\ ResolveIdle /\ FormatIdle

Decode ==
    /\ pc = "start"
    /\ decoded' = DecodeDomainName(fullMessage, offset)
    /\ pc' = "decoded"
    /\ UNCHANGED << fullMessage, offset, nameVars, headerVars, parseVars, resolveVars, formatVars >>

NextDecode == Decode

SpecDecode == InitDecode /\ [][NextDecode]_vars

(***************************************************************************)
(* Claims on the name codec.                                                *)
(***************************************************************************)
\* C1: DecodeDomainName terminates on every buffer and start offset, also when
\* a pointer targets its own offset or is part of a cycle: every call returns,
\* a name or a decode error.
C1_DecodeTerminates ==
    pc = "decoded" => decoded.status \in { "ok", "err" }

\* every segment of the name is at most 63 bytes long
SegmentsAtMost63(d) ==
    \A i \in 1 .. Len(Split(d)) : Len(Split(d)[i]) <= MaxLabelLen

\* every segment of the name is between 1 and 63 bytes long
SegmentsFrom1To63(d) ==
    \A i \in 1 .. Len(Split(d)) :
        Len(Split(d)[i]) >= 1 /\ Len(Split(d)[i]) <= MaxLabelLen

\* the name was encoded and decoded again, and the decoder returned the name
RoundTrips ==
    /\ pc \in { "encoded", "decoded" } => encoded.status = "ok"
    /\ pc = "decoded" => decoded.status = "ok" /\ decoded.name = domain

\* C2 as stated: for every name whose segments are each at most 63 bytes,
\* DecodeDomainName(EncodeDomainName(name), 0) succeeds and returns name.
C2_RoundTripAnySegments ==
    SegmentsAtMost63(domain) => RoundTrips

\* C2 as amended: for the empty name and for every name whose segments are
\* each between 1 and 63 bytes, the round trip succeeds and returns name.
C2_RoundTrip ==
    (domain = << >> \/ SegmentsFrom1To63(domain)) => RoundTrips

C2_Witness ==
    /\ pc = "decoded"
    /\ domain = ExampleCom
    /\ decoded.status = "ok"
    /\ decoded.name = ExampleCom

\* the bytes of segments 1..k and their length octets
RECURSIVE WireLen(_, _)
WireLen(segs, k) == IF k = 0 THEN 0 ELSE WireLen(segs, k - 1) + 1 + Len(segs[k])

\* C9: EncodeDomainName fails exactly when a segment is longer than 63 bytes;
\* otherwise the output holds, for each segment in order, a length octet
\* below 64 (so never a pointer) and the segment's bytes, then one zero octet
\* and nothing else; "example.com" encodes to [7]example[3]com[0], 13 bytes.
C9_EncodeShape ==
    pc \in { "encoded", "decoded" } =>
        LET segs == Split(domain)
            out  == encoded.bytes
        IN  /\ (encoded.status = "err") <=> ~SegmentsAtMost63(domain)
            /\ encoded.status = "ok" =>
                 /\ Len(out) = WireLen(segs, Len(segs)) + 1
                 /\ out[Len(out)] = 0
                 /\ \A i \in 1 .. Len(segs) :
                      LET at == WireLen(segs, i - 1)
                      IN  /\ out[at + 1] = Len(segs[i])
                          /\ out[at + 1] < 64
                          /\ Slice(out, at + 1, at + 1 + Len(segs[i])) = segs[i]
            /\ domain = ExampleCom =>
                 encoded.status = "ok" /\ out = ExampleComWire /\ Len(out) = 13
            /\ domain = Rep(97, 63) => encoded.status = "ok"
            /\ domain = Rep(97, 64) => encoded.status = "err"

C9_Witness ==
    /\ pc = "encoded"
    /\ domain = Rep(97, MaxLabelLen) \o << Dot, 98 >>
    /\ encoded.status = "ok"
    /\ Len(encoded.bytes) = MaxLabelLen + 4

(***************************************************************************)
(* SpecHeader: Header.Pack applied to a header, then UnpackHeader applied   *)
(* to the packed bytes, to a prefix of them, or to them and more bytes.     *)
(***************************************************************************)
\* most bytes following the 12 bytes of a header given to UnpackHeader
MaxExtra == 2

\* 0x1234
ID1234 == 18 * 256 + 52

\* 0x8180: QR, RD, RA
Flags8180 == 129 * 256 + 128

HeaderIDs    == { 0, ID1234, 65535 }
HeaderFlags  == { 256, Flags8180, Flags8180 + 3 }
HeaderCounts == { 0, 1, 258 }

Headers ==
    [ ID : HeaderIDs, Flags : HeaderFlags, QDCOUNT : HeaderCounts,
      ANCOUNT : HeaderCounts, NSCOUNT : HeaderCounts, ARCOUNT : HeaderCounts ]

InitHeader ==
    /\ pc = "start"
    /\ header \in Headers
    /\ packed = None /\ data = << >> /\ unpacked = None
    /\ NameIdle /\ DecodeIdle /\ ParseIdle /\ ResolveIdle /\ FormatIdle

PackHeader ==
    /\ pc = "start"
    /\ packed' = Pack(header)
    /\ pc' = "packed"
    /\ UNCHANGED << header, data, unpacked, nameVars, decodeVars, parseVars, resolveVars, formatVars >>

Unpack ==
    /\ pc = "packed"
    /\ \E extra \in SeqsUpTo({ 0, 255 }, MaxExtra) :
         \E n \in 0 .. Len(packed.bytes \o extra) :
            /\ n < Len(packed.bytes \o extra) => extra = << >>
            /\ data' = SubSeq(packed.bytes \o extra, 1, n)
    /\ unpacked' = UnpackHeader(data')
    /\ pc' = "unpacked"
    /\ UNCHANGED << header, packed, nameVars, decodeVars, parseVars, resolveVars, formatVars >>

NextHeader == PackHeader \/ Unpack

SpecHeader == InitHeader /\ [][NextHeader]_vars

(***************************************************************************)
(* Claims on the header codec.                                              *)
(***************************************************************************)
\* the k-th big-endian 16-bit value of the bytes d
Be16(d, k) == 256 * d[2 * k - 1] + d[2 * k]

\* the six fields of a header in wire order
Fields(h) == << h.ID, h.Flags, h.QDCOUNT, h.ANCOUNT, h.NSCOUNT, h.ARCOUNT >>

\* C10: Pack yields exactly 12 bytes holding id, flags, qdcount, ancount,
\* nscount, arcount as big-endian 16-bit values in that order; UnpackHeader
\* fails exactly when given fewer than 12 bytes and otherwise returns the six
\* values of the first 12 bytes; UnpackHeader(Pack(h)) = h.
C10_HeaderCodec ==
    /\ pc \in { "packed", "unpacked" } =>
         /\ packed.status = "ok"
         /\ Len(packed.bytes) = 12
         /\ \A k \in 1 .. 6 :
              /\ Be16(packed.bytes, k) = Fields(header)[k]
              /\ packed.bytes[2 * k - 1] < 256 /\ packed.bytes[2 * k] < 256
    /\ pc = "unpacked" =>
         /\ (unpacked.status = "err") <=> (Len(data) < 12)
         /\ unpacked.status = "ok" =>
              \A k \in 1 .. 6 : Fields(unpacked.header)[k] = Be16(data, k)
         /\ data = packed.bytes =>
              unpacked.status = "ok" /\ unpacked.header = header
         /\ (header.ID = ID1234 /\ header.Flags = Flags8180 /\ header.QDCOUNT = 1
               /\ header.ANCOUNT = 1 /\ Len(data) >= 12) =>
              /\ unpacked.header.ID = ID1234 /\ unpacked.header.Flags = Flags8180
              /\ unpacked.header.QDCOUNT = 1 /\ unpacked.header.ANCOUNT = 1

C10_Witness ==
    /\ pc = "unpacked"
    /\ header.ID = ID1234 /\ header.Flags = Flags8180
    /\ header.QDCOUNT = 1 /\ header.ANCOUNT = 1
    /\ SubSeq(packed.bytes, 1, 4) = << 18, 52, 129, 128 >>
    /\ Len(data) = 14
    /\ unpacked.status = "ok"
    /\ unpacked.header = header

(***************************************************************************)
(* SpecParse: parseQuestion and ParseResourceRecord applied to a message    *)
(* buffer at an offset.  The buffers are resource records behind a few      *)
(* bytes of padding, cut off at every length.                               *)
(***************************************************************************)
\* the largest rdlength a record of SpecParse declares
MaxRDLen == 2

\* a resource record on the wire: name, type, class IN, ttl 60, rdlength, data
RRWire(name, type, rdlength, rdata) ==
    name \o PutUint16(type) \o PutUint16(1) \o << 0, 0, 0, 60 >>
         \o PutUint16(rdlength) \o rdata

\* root, "a", a pointer to offset 0, "a" then a pointer to offset 0, a pointer to offset 1
ParseNames == { << 0 >>, << 1, 97, 0 >>, << 192, 0 >>, << 1, 97, 192, 0 >>, << 192, 1 >> }

\* what precedes the record: nothing, a root octet, the name "a"
ParsePads == { << >>, << 0 >>, << 1, 97, 0 >> }

\* whole records, the last with a byte following it
ParseWhole ==
    { pad \o RRWire(name, 1, len, Rep(7, len)) \o trail :
        pad \in ParsePads, name \in ParseNames, len \in 0 .. MaxRDLen,
        trail \in { << >>, << 9 >> } }

\* every prefix of a whole record
ParseBuffers == UNION { Prefixes(w) : w \in ParseWhole }

InitParse ==
    /\ pc = "start"
    /\ fullMessage \in ParseBuffers
    /\ offset \in 0 .. Len(fullMessage) + 1
    /\ decoded = None
    /\ question = None /\ record = None
    /\ NameIdle /\ HeaderIdle /\ ResolveIdle /\ FormatIdle

ParseQuestionAt ==
    /\ question = None
    /\ question' = parseQuestion(fullMessage, offset)
    /\ UNCHANGED << pc, record, nameVars, decodeVars, headerVars, resolveVars, formatVars >>

ParseRecordAt ==
    /\ record = None
    /\ record' = ParseResourceRecord(fullMessage, offset)
    /\ UNCHANGED << pc, question, nameVars, decodeVars, headerVars, resolveVars, formatVars >>

NextParse == ParseQuestionAt \/ ParseRecordAt

SpecParse == InitParse /\ [][NextParse]_vars

(***************************************************************************)
(* Claims on the parsers.                                                   *)
(***************************************************************************)
\* the call read no index outside the buffer
ReadsInside(r) ==
    /\ \A i \in r.reads : i >= 0 /\ i < Len(fullMessage)
    /\ ~r.panic

\* the rdlength declared by the record whose fixed fields start at offset h
DeclaredRDLength(h) == 256 * fullMessage[h + 9] + fullMessage[h + 10]

\* the owner name at offset decodes, the ten bytes of fixed fields are there,
\* and the buffer ends short bytes before the end of the declared data
DataCutShort(short) ==
    LET d == DecodeDomainName(fullMessage, offset)
        h == offset + d.n
    IN  /\ d.status = "ok"
        /\ h + 10 <= Len(fullMessage)
        /\ h + 10 + DeclaredRDLength(h) = Len(fullMessage) + short

\* C8: parseQuestion, ParseResourceRecord and the DecodeDomainName calls they
\* make read no index outside the buffer, for every buffer and start offset;
\* a buffer that ends before the declared rdlength bytes of data, even by one
\* byte, makes ParseResourceRecord return an error.
C8_ReadsInBounds ==
    /\ question # None => ReadsInside(question)
    /\ record # None =>
         /\ ReadsInside(record)
         /\ (\E short \in 1 .. (MaxRDLen + 1) : DataCutShort(short)) =>
                record.status = "err"
         /\ record.status = "ok" =>
                /\ Len(record.rr.RData) = record.rr.RDLength
                /\ record.n <= Len(fullMessage)

C8_Witness ==
    /\ record # None
    /\ DataCutShort(1)
    /\ record.status = "err"
    /\ record.err = "RR data length exceeds message boundary"
    /\ offset + 10 \in record.reads

(***************************************************************************)
(* SpecResolve: one call of Resolve.  buildQuery, then sendQuery's Dial,    *)
(* Write and Read, each of which the network may fail, then parseResponse   *)
(* and the id check on the bytes read.  The bytes read are any response of  *)
(* Responses: a header followed by questions and records, whole or cut.     *)
(***************************************************************************)
\* the largest QDCOUNT and ANCOUNT a response declares
MaxCount == 2
\* the most questions in the body of a response
MaxQuestions == 1
\* the most records in the body of a response
MaxAnswers == 3

\* TypeA
TypeA == 1

\* the name "a" and a name of one segment of 64 bytes, which buildQuery rejects
ResolveDomains == { << 97 >>, Rep(97, MaxLabelLen + 1) }

\* the ids rand.Read may produce
QueryIDs == { 4, 5 }

\* the ids a response may carry
ResponseIDs == { 5 }

\* the response codes 0..5: NOERROR, FORMERR, SERVFAIL, NXDOMAIN, NOTIMP, REFUSED
Rcodes == 0 .. 5

\* the question "a" A IN, 7 bytes
QuestionA == << 1, 97, 0 >> \o PutUint16(TypeA) \o PutUint16(1)

\* the records a response body is made of: an A record whose owner is a
\* pointer to offset 12 (16 bytes); a record of the root with one byte of data
\* (12 bytes); the A record with its last byte of data missing; a record of
\* the root that declares 13 bytes of data and holds 12, the last 11 of which
\* read as a record of the root with no data (23 bytes)
AnswerFragments ==
    { RRWire(<< 192, HeaderLen >>, TypeA, 4, << 93, 184, 216, 34 >>),
      RRWire(<< 0 >>, TypeA, 1, << 7 >>),
      RRWire(<< 192, HeaderLen >>, TypeA, 4, << 93, 184, 216 >>),
      RRWire(<< 0 >>, TypeA, 13, << 7 >> \o RRWire(<< 0 >>, TypeA, 0, << >>)) }

\* the concatenation of the byte strings of a sequence
RECURSIVE Concat(_)
Concat(ss) == IF Len(ss) = 0 THEN << >> ELSE ss[1] \o Concat(Tail(ss))

\* questions, then records
Bodies ==
    { Concat(qs) \o Concat(rs) :
        qs \in SeqsUpTo({ QuestionA }, MaxQuestions),
        rs \in SeqsUpTo(AnswerFragments, MaxAnswers) }

ResponseHeaders ==
    [ ID : ResponseIDs, Flags : { Flags8180 + rc : rc \in Rcodes },
      QDCOUNT : 0 .. MaxCount, ANCOUNT : 0 .. MaxCount,
      NSCOUNT : { 0 }, ARCOUNT : { 0 } ]

\* whole responses, and two datagrams too short to hold a header
Responses ==
    { HeaderBytes(h) \o b : h \in ResponseHeaders, b \in Bodies }
        \cup { << >>, SubSeq(HeaderBytes(ZeroHeader), 1, HeaderLen - 1) }

InitResolve ==
    /\ pc = "Idle"
    /\ domain \in ResolveDomains
    /\ recordType = TypeA
    /\ queryID = 0 /\ query = << >> /\ conn = "none" /\ netops = << >>
    /\ response = << >> /\ parsed = None /\ outcome = None
    /\ encoded = None
    /\ DecodeIdle /\ HeaderIdle /\ ParseIdle /\ FormatIdle

\* Resolve, lines 97-100: buildQuery and its error return
BuildQuery ==
    /\ pc = "Idle"
    /\ \E id \in QueryIDs, randOK \in BOOLEAN :
         LET b == buildQuery(domain, recordType, id, randOK)
         IN  /\ query' = b.bytes
             /\ queryID' = b.id
             /\ IF b.status = "ok"
                THEN pc' = "QueryBuilt" /\ outcome' = outcome
                ELSE pc' = "Failed" /\ outcome' = Failure("failed to build query", "none")
    /\ UNCHANGED << domain, recordType, encoded, conn, netops, response, parsed,
                    decodeVars, headerVars, parseVars, formatVars >>

\* a faulty variant: the connection is left as it is
DeferredClose_Skipped(c) == c

\* defer conn.Close(), line 188: runs as sendQuery returns, on every path
DeferredClose(c) == "closed"

\* a faulty variant: the query is sent again
AfterSendError_Retry == "QueryBuilt"

\* sendQuery returns its error and Resolve returns it (lines 103-105): the
\* call is over
AfterSendError == "Failed"

\* sendQuery, lines 184-190: net.Dial, defer conn.Close, SetDeadline
Dial ==
    /\ pc = "QueryBuilt"
    /\ netops' = Append(netops, "dial")
    /\ \E ok \in BOOLEAN :
         IF ok
         THEN pc' = "Connected" /\ conn' = "open" /\ outcome' = outcome
         ELSE pc' = AfterSendError /\ conn' = conn
                /\ outcome' = Failure("failed to send query", "none")
    /\ UNCHANGED << domain, recordType, encoded, queryID, query, response, parsed,
                    decodeVars, headerVars, parseVars, formatVars >>

\* sendQuery, lines 192-195: conn.Write; on an error the deferred Close runs
Write ==
    /\ pc = "Connected"
    /\ netops' = Append(netops, "write")
    /\ \E ok \in BOOLEAN :
         IF ok
         THEN pc' = "Sent" /\ conn' = conn /\ outcome' = outcome
         ELSE pc' = AfterSendError /\ conn' = DeferredClose(conn)
                /\ outcome' = Failure("failed to send query", "none")
    /\ UNCHANGED << domain, recordType, encoded, queryID, query, response, parsed,
                    decodeVars, headerVars, parseVars, formatVars >>

\* sendQuery, lines 197-203: conn.Read into 512 bytes, which ends with bytes
\* of a response or with an error (the deadline passing is one); the deferred
\* Close runs as sendQuery returns
Read ==
    /\ pc = "Sent"
    /\ netops' = Append(netops, "read")
    /\ conn' = DeferredClose(conn)
    /\ \/ \E r \in Responses :
            /\ response' = r
            /\ pc' = "ResponseReceived"
            /\ outcome' = outcome
       \/ /\ response' = response
          /\ pc' = AfterSendError
          /\ outcome' = Failure("failed to send query", "none")
    /\ UNCHANGED << domain, recordType, encoded, queryID, query, parsed,
                    decodeVars, headerVars, parseVars, formatVars >>

\* Resolve, lines 107-116: parseResponse, then the id check
ParseResponse ==
    /\ pc = "ResponseReceived"
    /\ parsed' = parseResponse(response)
    /\ outcome' = ResolveResult(parsed', queryID)
    /\ pc' = IF outcome'.status = "ok" THEN "Parsed"
             ELSE IF outcome'.status = "err" THEN "Failed"
             ELSE "Crashed"
    /\ UNCHANGED << domain, recordType, encoded, queryID, query, conn, netops, response,
                    decodeVars, headerVars, parseVars, formatVars >>

NextResolve == BuildQuery \/ Dial \/ Write \/ Read \/ ParseResponse

SpecResolve == InitResolve /\ [][NextResolve]_vars

(***************************************************************************)
(* Claims on Resolve and parseResponse.                                     *)
(***************************************************************************)
\* Resolve has parsed a response long enough to hold a header
HeaderReceived == parsed # None /\ Len(response) >= 12

\* the id in the response header, read from the bytes received
ResponseID == 256 * response[1] + response[2]

\* the low 4 bits of the flags in the response header, read from the bytes received
ResponseRcode == response[4] % 16

\* the counts in the response header, read from the bytes received
ResponseQDCount == 256 * response[5] + response[6]

ResponseANCount == 256 * response[7] + response[8]

IdMismatchError == "response ID does not match query ID"

\* C3: if the id in the response header differs from the id of the query,
\* Resolve fails with the id-mismatch error, whatever the response code is.
C3_IdMismatchReported ==
    (HeaderReceived /\ ResponseID # queryID) =>
        outcome.status = "err" /\ outcome.err = IdMismatchError

\* C4: Resolve returns a Message only when the id in the response header
\* equals the id of the query it sent; the Parsed outcome never has a
\* mismatched id.
C4_ParsedOnlyWithMatchingId ==
    (pc = "Parsed" \/ outcome.status = "ok") =>
        /\ HeaderReceived
        /\ ResponseID = queryID
        /\ outcome.status = "ok"
        /\ outcome.msg.Header.ID = queryID

C4_Witness ==
    /\ pc = "Parsed"
    /\ ResponseID = queryID
    /\ Len(outcome.msg.Questions) = 1
    /\ Len(outcome.msg.Answers) = 1

\* C5: if the low 4 bits of the flags are 3, Resolve fails with
\* ErrNameNotFound, and if they are 2 with ErrServerFailed, whatever the
\* section counts and the questions and records in the response are.
C5_RcodeErrors ==
    HeaderReceived =>
        /\ ResponseRcode = 3 =>
             outcome.status = "err" /\ outcome.is = "ErrNameNotFound"
                /\ outcome.msg = None
        /\ ResponseRcode = 2 =>
             outcome.status = "err" /\ outcome.is = "ErrServerFailed"
                /\ outcome.msg = None

C5_Witness ==
    /\ HeaderReceived
    /\ ResponseRcode = 3
    /\ ResponseQDCount = 1 /\ ResponseANCount = 2
    /\ Len(response) = 12 + 7 + 16 + 16
    /\ outcome.is = "ErrNameNotFound"

\* C6: if the low 4 bits of the flags are nonzero and neither 2 nor 3,
\* Resolve fails with an error and returns no Message.
C6_OtherRcodeFails ==
    (HeaderReceived /\ ResponseRcode \notin { 0, 2, 3 }) =>
        outcome.status = "err" /\ outcome.msg = None

\* the offset following the last question parsed: 12 when there is none,
\* else where the last question started plus the bytes parseQuestion counted
AfterQuestions ==
    IF Len(parsed.qOffsets) = 0 THEN 12
    ELSE parsed.qOffsets[Len(parsed.qOffsets)] + parsed.qReturned[Len(parsed.qReturned)]

\* C7: the first answer record is parsed at the offset following the last
\* question, and every later answer record at the offset ParseResourceRecord
\* returned for the record before it.
C7_AnswersParsedInSequence ==
    (parsed # None /\ Len(parsed.rrOffsets) >= 1) =>
        /\ parsed.rrOffsets[1] = AfterQuestions
        /\ \A i \in 2 .. Len(parsed.rrOffsets) :
               parsed.rrOffsets[i] = parsed.rrReturned[i - 1]

(***************************************************************************)
(* Record data formatter: ResourceRecord.RDataString.  A Go string is the   *)
(* sequence of its bytes, so a formatted value is compared byte by byte.    *)
(***************************************************************************)
\* TypeAAAA
TypeAAAA == 28
\* TypeCNAME
TypeCNAME == 5
\* TypeMX
TypeMX == 15
\* TypeTXT
TypeTXT == 16
\* TypeNS
TypeNS == 2

\* "invalid CNAME/NS data"
InvalidCNAME ==
    << 105, 110, 118, 97, 108, 105, 100, 32, 67, 78, 65, 77, 69, 47, 78, 83, 32,
       100, 97, 116, 97 >>

\* "invalid MX data"
InvalidMX ==
    << 105, 110, 118, 97, 108, 105, 100, 32, 77, 88, 32, 100, 97, 116, 97 >>

\* "unsupported record type or malformed data ("
Unsupported ==
    << 117, 110, 115, 117, 112, 112, 111, 114, 116, 101, 100, 32, 114, 101, 99,
       111, 114, 100, 32, 116, 121, 112, 101, 32, 111, 114, 32, 109, 97, 108, 102,
       111, 114, 109, 101, 100, 32, 100, 97, 116, 97, 32, 40 >>

\* a faulty variant: the offset following the first occurrence
Index_Off(s, sep) ==
    LET at == { i \in 0 .. Len(s) - Len(sep) : Slice(s, i, i + Len(sep)) = sep }
    IN  IF at = {} THEN -1 ELSE 1 + (CHOOSE i \in at : \A j \in at : i <= j)

\* bytes.Index(s, sep): the offset of the first occurrence of sep in s, -1
\* when there is none; an empty sep occurs at offset 0
Index(s, sep) ==
    LET at == { i \in 0 .. Len(s) - Len(sep) : Slice(s, i, i + Len(sep)) = sep }
    IN  IF at = {} THEN -1 ELSE CHOOSE i \in at : \A j \in at : i <= j

\* strings.Join(parts, sep)
RECURSIVE JoinWith(_, _)
JoinWith(parts, sep) ==
    IF Len(parts) = 0 THEN << >>
    ELSE IF Len(parts) = 1 THEN parts[1]
    ELSE parts[1] \o sep \o JoinWith(Tail(parts), sep)

\* the verb %d: the decimal digits of n
RECURSIVE Decimal(_)
Decimal(n) ==
    IF n < 10 THEN << 48 + n >> ELSE Append(Decimal(n \div 10), 48 + (n % 10))

\* one lower-case hexadecimal digit
HexDigit(d) == IF d < 10 THEN 48 + d ELSE 87 + d

\* the verb %x: the hexadecimal digits of n, no leading zero
RECURSIVE Hex(_)
Hex(n) ==
    IF n < 16 THEN << HexDigit(n) >> ELSE Append(Hex(n \div 16), HexDigit(n % 16))

\* the verb %v of a []byte: [b1 b2 ...], each byte in decimal
BytesV(b) ==
    << 91 >> \o JoinWith([ i \in 1 .. Len(b) |-> Decimal(b[i]) ], << 32 >>) \o << 93 >>

\* what %q writes for one byte of a string: itself when printable ASCII, an
\* escape otherwise.  A byte from 128 up is written \xhh, which is what %q
\* does when the byte is not part of a valid UTF-8 sequence (0xC0 never is).
QuoteByte(b) ==
    IF b = 34 THEN << 92, 34 >>
    ELSE IF b = 92 THEN << 92, 92 >>
    ELSE IF b = 7 THEN << 92, 97 >>
    ELSE IF b = 8 THEN << 92, 98 >>
    ELSE IF b = 12 THEN << 92, 102 >>
    ELSE IF b = 10 THEN << 92, 110 >>
    ELSE IF b = 13 THEN << 92, 114 >>
    ELSE IF b = 9 THEN << 92, 116 >>
    ELSE IF b = 11 THEN << 92, 118 >>
    ELSE IF b >= 32 /\ b < 127 THEN << b >>
    ELSE << 92, 120, HexDigit(b \div 16), HexDigit(b % 16) >>

\* the verb %q of a string: the bytes between double quotes
Quote(s) ==
    << 34 >> \o JoinWith([ i \in 1 .. Len(s) |-> QuoteByte(s[i]) ], << >>) \o << 34 >>

\* a string returned by RDataString
Str(t) == [status |-> "ok", text |-> t]

\* the final return: the placeholder with the raw data
Placeholder(rdata) == Str(Unsupported \o BytesV(rdata) \o << 41 >>)

\* a faulty variant: four bytes or more
IsIPv4_AtLeast(rdata) == Len(rdata) >= 4

\* len(rr.RData) == 4
IsIPv4(rdata) == Len(rdata) = 4

\* len(rr.RData) == 16
IsIPv6(rdata) == Len(rdata) = 16

\* len(rr.RData) > 2
HasExchange(rdata) == Len(rdata) > 2

\* "%d.%d.%d.%d" of the four bytes
FormatA(rdata) ==
    JoinWith([ i \in 1 .. 4 |-> Decimal(rdata[i]) ], << Dot >>)

\* the eight 16-bit groups in %x, joined by ":"
FormatAAAA(rdata) ==
    JoinWith([ i \in 1 .. 8 |-> Hex(Uint16(rdata[2 * i - 1], rdata[2 * i])) ], << 58 >>)

\* the name DecodeDomainName finds at offset at of the message, as RDataString
\* uses it: prefix and the name when it decodes, the placeholder when it
\* fails; a call that never returns makes RDataString never return
FormatName(rdata, message, at, prefix) ==
    LET d == DecodeDomainName(message, at)
    IN  IF d.status = "overflow" THEN [status |-> "overflow", text |-> << >>]
        ELSE IF d.panic THEN [status |-> "panic", text |-> << >>]
        ELSE IF d.status = "ok" THEN Str(prefix \o d.name)
        ELSE Placeholder(rdata)

\* the loop over the character strings of a TXT record
RECURSIVE TextStrings(_, _)
TextStrings(d, texts) ==
    IF ~(Len(d) > 0) THEN texts
    ELSE LET length == d[1]
         IN  IF Len(d) > length
             THEN TextStrings(Slice(d, 1 + length, Len(d)),
                              Append(texts, Quote(Slice(d, 1, 1 + length))))
             ELSE texts

RDataString(rr, message) ==
    IF rr.Type = TypeA
    THEN IF IsIPv4(rr.RData) THEN Str(FormatA(rr.RData)) ELSE Placeholder(rr.RData)
    ELSE IF rr.Type = TypeAAAA
    THEN IF IsIPv6(rr.RData) THEN Str(FormatAAAA(rr.RData)) ELSE Placeholder(rr.RData)
    ELSE IF rr.Type \in { TypeCNAME, TypeNS }
    THEN LET rdataStartOffset == Index(message, rr.RData)
         IN  IF rdataStartOffset = -1 THEN Str(InvalidCNAME)
             ELSE FormatName(rr.RData, message, rdataStartOffset, << >>)
    ELSE IF rr.Type = TypeMX
    THEN IF HasExchange(rr.RData)
         THEN LET preference       == Uint16(rr.RData[1], rr.RData[2])
                  rdataStartOffset == Index(message, rr.RData)
              IN  IF rdataStartOffset = -1 THEN Str(InvalidMX)
                  ELSE FormatName(rr.RData, message, rdataStartOffset + 2,
                                  Decimal(preference) \o << 32 >>)
         ELSE Placeholder(rr.RData)
    ELSE IF rr.Type = TypeTXT
    THEN Str(JoinWith(TextStrings(rr.RData, << >>), << 32 >>))
    ELSE Placeholder(rr.RData)

(***************************************************************************)
(* SpecFormat: ParseResourceRecord extracts a record from a message, then   *)
(* RDataString formats it, given that message, the empty buffer the command *)
(* passes, or another buffer.                                               *)
(***************************************************************************)
\* longest enumerated record data over the small alphabet
MaxRData == 3

\* a type that is none of the six
UnknownType == TypeTXT + 1

FormatTypes == { TypeA, TypeAAAA, TypeCNAME, TypeNS, TypeMX, TypeTXT, UnknownType }

\* root, label length 1, the letter a, and 0xC0, the first octet of a pointer
RDataAlphabet == { 0, 1, 97, 192 }

\* 93.184.216.34
IPv4Example == << 93, 184, 216, 34 >>

\* 2001:db8::1
IPv6Example == << 32, 1, 13, 184, 0, 0, 0, 0, 0, 0, 0, 0, 0, 0, 0, 1 >>

\* addresses one byte short and one byte long, exchanges behind a preference
\* of 10, and character strings
LongRDatas ==
    { IPv4Example, Append(IPv4Example, 1),
      IPv6Example, Append(IPv6Example, 1), SubSeq(IPv6Example, 1, 15),
      << 0, 10, 1, 97, 0 >>, << 0, 10, 192, 0 >>, << 0, 10, 1, 97 >>,
      << 1, 97, 1, 98 >>, << 1, 34, 5, 98 >> }

FormatRDatas == SeqsUpTo(RDataAlphabet, MaxRData) \cup LongRDatas

\* what precedes the record in the message: nothing, the name "a", a pointer
\* to offset 0
FormatPads == { << >>, << 1, 97, 0 >>, << 192, 0 >> }

\* what follows the record in the message: nothing, a root octet
FormatTrails == { << >>, << 0 >> }

\* the buffers given to RDataString besides the record's message: the empty
\* buffer of the command, a root octet, a pointer to offset 0
OtherBuffers == { << >>, << 0 >>, << 192, 0 >> }

InitFormat ==
    /\ pc = "start"
    /\ \E pad \in FormatPads, type \in FormatTypes, rdata \in FormatRDatas,
          trail \in FormatTrails :
         /\ fullMessage = pad \o RRWire(<< 0 >>, type, Len(rdata), rdata) \o trail
         /\ offset = Len(pad)
    /\ decoded = None
    /\ question = None /\ record = None
    /\ rawBytes = << >> /\ formatted = None
    /\ NameIdle /\ HeaderIdle /\ ResolveIdle

\* ParseResourceRecord at the offset of the record
ExtractRecord ==
    /\ pc = "start"
    /\ record' = ParseResourceRecord(fullMessage, offset)
    /\ pc' = "extracted"
    /\ UNCHANGED << question, nameVars, decodeVars, headerVars, resolveVars, formatVars >>

\* a.RDataString(rawBytes) on the record extracted
Format ==
    /\ pc = "extracted"
    /\ record.status = "ok"
    /\ \E buf \in { fullMessage } \cup OtherBuffers :
         /\ rawBytes' = buf
         /\ formatted' = RDataString(record.rr, buf)
    /\ pc' = "formatted"
    /\ UNCHANGED << parseVars, nameVars, decodeVars, headerVars, resolveVars >>

NextFormat == ExtractRecord \/ Format

SpecFormat == InitFormat /\ [][NextFormat]_vars

(***************************************************************************)
(* Claims on the record data formatter.                                     *)
(***************************************************************************)
\* C11: RDataString never fails: for every record and every buffer (empty,
\* not holding the record's data, or with self-referencing pointers) the call
\* returns a string; it does not panic and it does not run for ever.
C11_NeverFails ==
    formatted # None => formatted.status = "ok"

(***************************************************************************)
(* Claims on the connection and the order of the steps of Resolve.          *)
(***************************************************************************)
\* Resolve has returned: a Message or an error
Returned == pc \in { "Parsed", "Failed" }

\* net.Dial succeeded: it was followed by a Write, or the call waits to write
Opened == Len(netops) >= 2 \/ pc = "Connected"

\* C12: every Resolve call that opened a UDP connection has closed it by the
\* time it returns, on every exit path (success, write failure, read failure
\* or timeout, parse failure, RCODE error, id mismatch); no call returns with
\* the connection open.
C12_ConnectionClosed ==
    /\ Returned => conn # "open"
    /\ (Returned /\ Opened) => conn = "closed"
    /\ pc \in { "ResponseReceived", "Crashed" } => conn = "closed"

C12_Witness ==
    /\ pc = "Failed"
    /\ outcome.err = IdMismatchError
    /\ netops = << "dial", "write", "read" >>
    /\ conn = "closed"

\* the network operations of sendQuery in the order of the code
SendSteps == << "dial", "write", "read" >>

\* the network operations done when the call is at position p
StepsAt(p) ==
    IF p \in { "Idle", "QueryBuilt" } THEN { << >> }
    ELSE IF p = "Connected" THEN { << "dial" >> }
    ELSE IF p = "Sent" THEN { << "dial", "write" >> }
    ELSE IF p = "Failed" THEN Prefixes(SendSteps)
    ELSE { SendSteps }

\* the order of the steps, as a predicate of one state
StepsInOrder ==
    /\ netops \in StepsAt(pc)
    /\ ~SegmentsAtMost63(domain) =>
         netops = << >> /\ conn = "none" /\ pc \in { "Idle", "Failed" }
    /\ (outcome # None /\ outcome.err = "failed to build query") =>
         netops = << >> /\ conn = "none" /\ query = << >>
    /\ pc = "Failed" => outcome.status = "err" /\ outcome.msg = None
    /\ (pc \in { "Connected", "Sent" }) <=> conn = "open"

\* one step: a network operation is the next of SendSteps, and none follows
\* the return of an error
OneStep ==
    /\ netops' # netops =>
         /\ Len(netops) < Len(SendSteps)
         /\ netops' = Append(netops, SendSteps[Len(netops) + 1])
         /\ outcome = None
    /\ outcome # None => (netops' = netops /\ conn' = conn /\ outcome' = outcome)

\* C19: in one Resolve call the steps happen only in the order build query,
\* connect, write, read, parse; at most one write and one read are done; if
\* building the query fails nothing is connected or sent; after a connect,
\* write or read failure (a timeout is one) no further network operation is
\* attempted and the call returns an error.
C19_StepsInOrder == []StepsInOrder /\ [][OneStep]_vars

C19_Witness ==
    /\ pc = "Failed"
    /\ netops = << "dial", "write" >>
    /\ outcome.err = "failed to send query"
    /\ conn = "closed"

(***************************************************************************)
(* Claims on DecodeDomainName: length octets, byte count, shape of a name.  *)
(***************************************************************************)
\* the call has returned a name
Decoded == pc = "decoded" /\ decoded.status = "ok"

\* the length octets DecodeDomainName meets from offset off on, before the
\* end of the name, a pointer or the end of the buffer
RECURSIVE LengthOctets(_, _)
LengthOctets(message, off) ==
    IF off >= Len(message) THEN { }
    ELSE IF message[off + 1] = 0 \/ IsPointer(message[off + 1]) THEN { message[off + 1] }
    ELSE { message[off + 1] } \cup LengthOctets(message, off + 1 + message[off + 1])

\* a length octet whose top two bits are 01 or 10
Reserved(length) == length >= 64 /\ length <= 191

\* C13: DecodeDomainName returns an error when it meets a length octet whose
\* top two bits are 01 or 10 (64..191); no label of a decoded name is longer
\* than 63 bytes.
C13_ReservedRejected ==
    pc = "decoded" =>
        /\ (\E length \in LengthOctets(fullMessage, offset) : Reserved(length)) =>
               decoded.status = "err"
        /\ decoded.status = "ok" => SegmentsAtMost63(decoded.name)

\* the labels from offset off up to the end of the name or a pointer: the
\* labels, the offset of the octet that ends them, and whether it is there
RECURSIVE LabelsFrom(_, _, _)
LabelsFrom(message, off, labels) ==
    IF off >= Len(message) THEN [ labels |-> labels, end |-> off, found |-> FALSE ]
    ELSE IF message[off + 1] = 0 \/ IsPointer(message[off + 1])
         THEN [ labels |-> labels, end |-> off, found |-> TRUE ]
         ELSE IF off + 1 + message[off + 1] > Len(message)
         THEN [ labels |-> labels, end |-> off, found |-> FALSE ]
         ELSE LabelsFrom(message, off + 1 + message[off + 1],
                         Append(labels, Slice(message, off + 1, off + 1 + message[off + 1])))

\* the target of the pointer at offset p
TargetAt(message, p) == ((message[p + 1] % 64) * 256) + message[p + 2]

\* C14: at a compression pointer the name ends: the byte count returned is
\* the bytes of the labels read before the pointer plus 2, whatever the name
\* at the target is, the name is those labels and the name decoded at the
\* target, and nothing behind the pointer is read for the count; with a zero
\* octet and no pointer the count is the bytes of the labels plus 1.
C14_ByteCount ==
    Decoded =>
        LET w == LabelsFrom(fullMessage, offset, << >>)
        IN  /\ w.found
            /\ fullMessage[w.end + 1] = 0 =>
                 /\ decoded.n = (w.end - offset) + 1
                 /\ decoded.name = Join(w.labels)
            /\ fullMessage[w.end + 1] # 0 =>
                 LET target == DecodeDomainName(fullMessage, TargetAt(fullMessage, w.end))
                 IN  /\ decoded.n = (w.end - offset) + 2
                     /\ target.status = "ok"
                     /\ decoded.name = Join(Append(w.labels, target.name))
                     /\ decoded.reads = (offset .. w.end + 1) \cup target.reads

C14_Witness ==
    /\ Decoded
    /\ fullMessage = PointerChain
    /\ offset = 5
    /\ decoded.n = 4
    /\ decoded.name = << 97, Dot, 97 >>

\* no segment between the dots of the name is empty
NoEmptyLabel(name) ==
    \A i \in 1 .. Len(Split(name)) : Len(Split(name)[i]) >= 1

\* C17: every name DecodeDomainName returns is the root (no label) or labels
\* separated by dots, with no trailing dot and no empty label, also when
\* labels are followed by a pointer to a zero octet.
C17_NoTrailingDot ==
    Decoded => (decoded.name = << >> \/ NoEmptyLabel(decoded.name))

(***************************************************************************)
(* Claims on the names and placeholders RDataString returns.                *)
(***************************************************************************)
\* RDataString was given the message the record was extracted from
FormattedInMessage == pc = "formatted" /\ rawBytes = fullMessage

\* the record is of a type whose data holds a name
HoldsName(rr) == rr.Type \in { TypeCNAME, TypeNS } \/ (rr.Type = TypeMX /\ Len(rr.RData) > 2)

\* where the name starts in the data: behind the preference of an MX record
NameStart(rr) == IF rr.Type = TypeMX THEN 2 ELSE 0

\* what precedes the name in the string: the preference of an MX record
NamePrefix(rr) ==
    IF rr.Type = TypeMX
    THEN Decimal(256 * rr.RData[1] + rr.RData[2]) \o << 32 >>
    ELSE << >>

\* C15: for every CNAME or NS record that ParseResourceRecord extracted,
\* RDataString given the same message returns the name decoded at the offset
\* where the record's data starts in the message (for MX the preference and
\* the name decoded at that offset plus 2), also when the bytes of the data
\* occur earlier in the message or the data is empty.
C15_NameAtDataOffset ==
    (FormattedInMessage /\ HoldsName(record.rr)) =>
        LET d == DecodeDomainName(fullMessage, record.dataStart + NameStart(record.rr))
        IN  d.status = "ok" =>
                /\ formatted.status = "ok"
                /\ formatted.text = NamePrefix(record.rr) \o d.name

\* the data holds a complete encoded name: its labels and the zero octet or
\* the two bytes of the pointer that end it lie inside the data
CompleteName(rr) ==
    LET w == LabelsFrom(rr.RData, NameStart(rr), << >>)
    IN  /\ w.found
        /\ IsPointer(rr.RData[w.end + 1]) => w.end + 2 <= Len(rr.RData)

\* two calls of DecodeDomainName ended the same way: the same name, the same
\* failure, or both without returning
SameResult(d1, d2) ==
    /\ d1.status = d2.status
    /\ d1.name = d2.name
    /\ d1.err = d2.err

\* C16: when the data of a CNAME, NS or MX record holds a complete encoded
\* name, decoding at the first occurrence of the data in the message gives
\* the same result as decoding at the offset where the data starts, wherever
\* the bytes of the data occur earlier; RDataString returns what it would
\* return with the true offset.
C16_FirstMatchSameName ==
    (FormattedInMessage /\ HoldsName(record.rr) /\ CompleteName(record.rr)) =>
        LET first == Index(fullMessage, record.rr.RData)
            s     == NameStart(record.rr)
        IN  /\ first >= 0 /\ first <= record.dataStart
            /\ SameResult(DecodeDomainName(fullMessage, first + s),
                          DecodeDomainName(fullMessage, record.dataStart + s))
            /\ formatted = FormatName(record.rr.RData, fullMessage,
                                      record.dataStart + s, NamePrefix(record.rr))

C16_Witness ==
    /\ FormattedInMessage
    /\ record.rr.Type = TypeCNAME
    /\ record.rr.RData = << 1, 97, 0 >>
    /\ Index(fullMessage, record.rr.RData) = 0
    /\ record.dataStart = 14
    /\ formatted = Str(<< 97 >>)

\* the data is not of the length its type requires
WrongLength(rr) ==
    \/ rr.Type = TypeA /\ Len(rr.RData) # 4
    \/ rr.Type = TypeAAAA /\ Len(rr.RData) # 16
    \/ rr.Type = TypeMX /\ Len(rr.RData) <= 2

\* the type is none of A, AAAA, CNAME, NS, MX, TXT
OtherType(rr) ==
    rr.Type \notin { TypeA, TypeAAAA, TypeCNAME, TypeNS, TypeMX, TypeTXT }

\* the data of the record does not occur in the buffer given
NotLocated(rr) ==
    \A i \in 0 .. Len(rawBytes) - Len(rr.RData) :
        Slice(rawBytes, i, i + Len(rr.RData)) # rr.RData

\* the data occurs in the buffer and decoding the name where it first occurs
\* returns an error
NotDecoded(rr) ==
    /\ ~NotLocated(rr)
    /\ DecodeDomainName(rawBytes, Index(rawBytes, rr.RData) + NameStart(rr)).status = "err"

\* the character strings of TXT data that are whole, up to the first whose
\* length octet runs past the data, and whether there is such a one
RECURSIVE WholeStrings(_, _)
WholeStrings(d, whole) ==
    IF Len(d) = 0 THEN [ whole |-> whole, cut |-> FALSE ]
    ELSE IF d[1] + 1 > Len(d) THEN [ whole |-> whole, cut |-> TRUE ]
    ELSE WholeStrings(SubSeq(d, d[1] + 2, Len(d)), Append(whole, SubSeq(d, 2, d[1] + 1)))

\* each whole string between double quotes, the strings separated by a space
QuotedStrings(whole) ==
    JoinWith([ i \in 1 .. Len(whole) |-> Quote(whole[i]) ], << 32 >>)

RECURSIVE EntriesEnd(_, _, _, _)
EntriesEnd(resp, off, q, a) ==
    IF q > 0
    THEN LET r == parseQuestion(resp, off)
         IN  IF r.status # "ok" THEN -1 ELSE EntriesEnd(resp, off + r.n, q - 1, a)
    ELSE IF a > 0
    THEN LET r == ParseResourceRecord(resp, off)
         IN  IF r.status # "ok" THEN -1 ELSE EntriesEnd(resp, r.n, 0, a - 1)
    ELSE off

\* the buffer holds the declared questions and answers whole
EntriesComplete ==
    EntriesEnd(response, HeaderLen, ResponseQDCount, ResponseANCount) # -1

\* C18: parseResponse returns a Message only after decoding exactly QDCOUNT
\* questions and ANCOUNT answers: the Message has QDCOUNT questions and
\* ANCOUNT answers, and a buffer that ends before the declared entries are
\* complete yields an error and no Message.
C18_DeclaredEntries ==
    (parsed # None /\ parsed.status = "ok") =>
        /\ Len(parsed.msg.Questions) = ResponseQDCount
        /\ Len(parsed.msg.Answers) = ResponseANCount
        /\ EntriesComplete

====
